---------------------------- MODULE Spec2Model ----------------------------
(***************************************************************************)
(* Model of the contribution aggregator of src/server.js.                  *)
(*                                                                         *)
(* Two specifications share the module:                                    *)
(*   SpecPipeline  the pure pipeline mergeMaps -> mergedMapToPayload ->     *)
(*                 renderCalendarSVG on inputs drawn in InitPipeline;      *)
(*   Spec          the Express server: the two handlers, the concurrent     *)
(*                 per-user fetches and the in-memory cache.               *)
(*                                                                         *)
(* Representation of the JavaScript values:                                *)
(*   string     a sequence of UTF-16 code units ("2024-01-07" is ten of      *)
(*              them); Array.prototype.sort and < compare them code unit   *)
(*              by code unit;                                              *)
(*   Map/object a sequence of <<key, value>> pairs in insertion order with  *)
(*              unique keys;                                               *)
(*   Date       every Date of renderCalendarSVG is a UTC midnight, so its   *)
(*              time value is kept as its quotient by msPerDay (the day    *)
(*              number since 1970-01-01); the millisecond values exceed    *)
(*              the integers TLC computes with;                            *)
(*   null       the empty sequence: `dates[0] || null` and `!start` treat   *)
(*              null and the empty string alike.                           *)
(***************************************************************************)
EXTENDS Integers, Sequences, FiniteSets, TLC

VARIABLES
    \* pipeline
    maps,       \* the argument of mergeMaps: a list of Maps
    merged,     \* the Map mergeMaps returned
    payload,    \* the object mergedMapToPayload returned
    svg,        \* what renderCalendarSVG returned
    pc,         \* position in the pipeline
    \* server
    now,        \* Date.now(), in ms since the server started
    cache,      \* the module-level Map `cache`: key -> { ts, data }
    reqs,       \* the requests being handled, by slot
    ticks       \* how often the clock advanced (bounds the model)

pvars == <<maps, merged, payload, svg, pc>>
svars == <<now, cache, reqs, ticks>>
vars == <<maps, merged, payload, svg, pc, now, cache, reqs, ticks>>

-----------------------------------------------------------------------------
(* Bounds of the model *)

\* longest list of input series handed to mergeMaps
MaxMaps == 3
\* largest per-day count of an input series
MaxCount == 2
\* the rendered inputs start and end within WindowBase .. WindowBase + MaxSpan
MaxSpan == 37
\* largest count of the single-day inputs that exercise the colour thresholds
MaxColorCount == 12
\* requests the server receives; request r + 1 arrives after request r
MaxReqs == 3
\* the clock advances at most MaxTicks times
MaxTicks == 2
\* the same two bounds where the requests name up to two users
MaxJoinReqs == 2
MaxJoinTicks == 1

-----------------------------------------------------------------------------
(* Strings and numbers *)

Null == <<>>

Digit(n) == 48 + n
Hyphen == <<45>>

\* String(n).padStart(2, '0') as toISOString formats month and day
Pad2(n) == <<Digit(n \div 10), Digit(n % 10)>>

\* the four-digit year of toISOString (years 0000..9999)
Pad4(n) == <<Digit(n \div 1000), Digit((n \div 100) % 10), Digit((n \div 10) % 10), Digit(n % 10)>>

RECURSIVE Number(_)
\* Number("0123") of a string of decimal digits
Number(s) ==
    IF s = <<>> THEN 0
    ELSE 10 * Number(SubSeq(s, 1, Len(s) - 1)) + (s[Len(s)] - 48)

RECURSIVE StrLess(_, _)
\* a < b on strings: by code units, a proper prefix first
StrLess(a, b) ==
    IF b = <<>> THEN FALSE
    ELSE IF a = <<>> THEN TRUE
    ELSE IF a[1] # b[1] THEN a[1] < b[1]
    ELSE StrLess(Tail(a), Tail(b))

RECURSIVE SortInsert(_, _)
SortInsert(sorted, x) ==
    IF sorted = <<>> THEN <<x>>
    ELSE IF StrLess(x, sorted[1]) THEN <<x>> \o sorted
    ELSE <<sorted[1]>> \o SortInsert(Tail(sorted), x)

RECURSIVE Sort(_)
\* Array.prototype.sort() without a comparator, on an array of strings
Sort(arr) ==
    IF arr = <<>> THEN <<>>
    ELSE SortInsert(Sort(SubSeq(arr, 1, Len(arr) - 1)), arr[Len(arr)])

-----------------------------------------------------------------------------
(* Map and plain object, in insertion order *)

Keys(m) == [i \in DOMAIN m |-> m[i][1]]
Values(m) == [i \in DOMAIN m |-> m[i][2]]
Has(m, k) == \E i \in DOMAIN m : m[i][1] = k
Get(m, k) == m[CHOOSE i \in DOMAIN m : m[i][1] = k][2]

\* m.get(k) || 0, and obj[k] || 0
GetOrZero(m, k) == IF Has(m, k) THEN Get(m, k) ELSE 0

\* m.set(k, v), and obj[k] = v: an existing key keeps its place
Set(m, k, v) ==
    IF Has(m, k)
    THEN [i \in DOMAIN m |-> IF m[i][1] = k THEN <<k, v>> ELSE m[i]]
    ELSE Append(m, <<k, v>>)

-----------------------------------------------------------------------------
(* Date, in days since 1970-01-01 *)

\* Date.UTC(y, m - 1, d) / msPerDay; d may lie outside the month
DateUTC(y, m, d) ==
    LET yy == IF m <= 2 THEN y - 1 ELSE y
        era == yy \div 400
        yoe == yy - era * 400
        mp == IF m > 2 THEN m - 3 ELSE m + 9
        doy == (153 * mp + 2) \div 5
        doe == yoe * 365 + yoe \div 4 - yoe \div 100 + doy
    IN  era * 146097 + doe - 719468 + (d - 1)

\* <<getUTCFullYear, getUTCMonth + 1, getUTCDate>> of a day number
Civil(t) ==
    LET z == t + 719468
        era == z \div 146097
        doe == z - era * 146097
        yoe == (doe - doe \div 1460 + doe \div 36524 - doe \div 146096) \div 365
        doy == doe - (365 * yoe + yoe \div 4 - yoe \div 100)
        mp == (5 * doy + 2) \div 153
        d == doy - (153 * mp + 2) \div 5 + 1
        m == IF mp < 10 THEN mp + 3 ELSE mp - 9
        y == yoe + era * 400 + (IF m <= 2 THEN 1 ELSE 0)
    IN  <<y, m, d>>

\* 1970-01-01 was a Thursday
getUTCDay(t) == (t + 4) % 7
getUTCDate(t) == Civil(t)[3]

\* date.setUTCDate(n): day n of the date's own month, n <= 0 reaching back
setUTCDate(t, n) == DateUTC(Civil(t)[1], Civil(t)[2], n)

\* d.toISOString().slice(0, 10)
toISODate(t) ==
    LET c == Civil(t) IN Pad4(c[1]) \o Hyphen \o Pad2(c[2]) \o Hyphen \o Pad2(c[3])

\* const [y, m, d] = s.split('-').map(Number); new Date(Date.UTC(y, m - 1, d))
parseDate(s) ==
    DateUTC(Number(SubSeq(s, 1, 4)), Number(SubSeq(s, 6, 7)), Number(SubSeq(s, 9, 10)))

-----------------------------------------------------------------------------
(* mergeMaps *)

RECURSIVE MergeEntries(_, _)
\* the inner loop with merged.set(date, count): the last input wins
MergeEntriesOverwrite(acc, m) ==
    IF m = <<>> THEN acc
    ELSE MergeEntries(Set(acc, m[1][1], m[1][2]), Tail(m))

\* the inner loop: for (const [date, count] of m.entries())
\*   merged.set(date, (merged.get(date) || 0) + count)
MergeEntries(acc, m) ==
    IF m = <<>> THEN acc
    ELSE MergeEntries(Set(acc, m[1][1], GetOrZero(acc, m[1][1]) + m[1][2]), Tail(m))

RECURSIVE MergeFrom(_, _)
\* the outer loop: for (const m of maps)
MergeFrom(acc, ms) ==
    IF ms = <<>> THEN acc
    ELSE MergeFrom(MergeEntries(acc, ms[1]), Tail(ms))

\* the outer loop stopping one input short
mergeMapsDropLast(ms) == MergeFrom(<<>>, SubSeq(ms, 1, Len(ms) - 1))

mergeMaps(ms) == MergeFrom(<<>>, ms)

-----------------------------------------------------------------------------
(* mergedMapToPayload *)

RECURSIVE SumValues(_)
SumValues(m) == IF m = <<>> THEN 0 ELSE m[1][2] + SumValues(Tail(m))

RECURSIVE CopyEntries(_, _)
\* for (const [d, c] of ...) counts[d] = c
CopyEntries(obj, m) ==
    IF m = <<>> THEN obj ELSE CopyEntries(Set(obj, m[1][1], m[1][2]), Tail(m))

\* dates[0] || null
FirstOrNull(dates) == IF dates = <<>> THEN Null ELSE dates[1]
\* dates[dates.length - 1] || null
LastOrNull(dates) == IF dates = <<>> THEN Null ELSE dates[Len(dates)]

\* the payload built without sorting the keys: start and end in insertion order
mergedMapToPayloadUnsorted(m) ==
    [ start  |-> FirstOrNull(Keys(m)),
      end    |-> LastOrNull(Keys(m)),
      total  |-> SumValues(m),
      counts |-> CopyEntries(<<>>, m) ]

mergedMapToPayload(m) ==
    LET dates == Sort(Keys(m))
    IN  [ start  |-> FirstOrNull(dates),
          end    |-> LastOrNull(dates),
          total  |-> SumValues(m),
          counts |-> CopyEntries(<<>>, m) ]

-----------------------------------------------------------------------------
(* renderCalendarSVG *)

rectSize == 12
gap == 4
paddingTop == 22
paddingLeft == 36
padding == 8

palette == <<"#ebedf0", "#9be9a8", "#40c463", "#30a14e", "#216e39">>
monthNames == <<"Jan", "Feb", "Mar", "Apr", "May", "Jun",
                "Jul", "Aug", "Sep", "Oct", "Nov", "Dec">>
weekdayLabels == << [dow |-> 1, label |-> "Mon"],
                    [dow |-> 3, label |-> "Wed"],
                    [dow |-> 5, label |-> "Fri"] >>

\* '<svg xmlns="http://www.w3.org/2000/svg"></svg>': no size, no children
MinimalSvg ==
    [ width |-> 0, height |-> 0, label |-> <<>>,
      monthLabels |-> <<>>, weekdayLabels |-> <<>>, rects |-> <<>> ]

Max2(a, b) == IF a >= b THEN a ELSE b

RECURSIVE MaxOf(_, _)
\* Math.max(...vals, floor)
MaxOf(vals, floor) ==
    IF vals = <<>> THEN floor ELSE MaxOf(Tail(vals), Max2(vals[1], floor))

\* the start aligned without the roll back to Sunday
calendarStartUnaligned(start) == parseDate(start)

\* startDate rolled back to the previous Sunday
calendarStartOf(start) ==
    LET startDate == parseDate(start)
        startDow == getUTCDay(startDate)
    IN  setUTCDate(startDate, getUTCDate(startDate) - startDow)

\* Math.round((lastDate - calendarStart) / msPerDay) + 1
totalDaysOf(start, end) == (parseDate(end) - calendarStartOf(start)) + 1

\* Math.ceil(totalDays / 7)
weeksOf(start, end) == (totalDaysOf(start, end) + 6) \div 7

maxCountOf(counts) == MaxOf(Values(counts), 1)

\* Math.floor(maxCount * 0.25), * 0.5, * 0.75: exact in binary floating point
breaksOf(maxCount) ==
    << Max2(0, 0),
       Max2(1, maxCount \div 4),
       Max2(1, maxCount \div 2),
       Max2(1, (3 * maxCount) \div 4) >>

RECURSIVE ColorFrom(_, _, _)
ColorFrom(count, breaks, i) ==
    IF i > Len(breaks) THEN palette[Len(palette)]
    ELSE IF count <= breaks[i] THEN palette[i]
    ELSE ColorFrom(count, breaks, i + 1)

RECURSIVE ColorFromStrict(_, _, _)
ColorFromStrict(count, breaks, i) ==
    IF i > Len(breaks) THEN palette[Len(palette)]
    ELSE IF count < breaks[i] THEN palette[i]
    ELSE ColorFromStrict(count, breaks, i + 1)

\* colorForCount with count < breaks[i]
colorForCountStrict(count, breaks) == ColorFromStrict(count, breaks, 1)

colorForCount(count, breaks) == ColorFrom(count, breaks, 1)

\* the x of week column weekIndex, the y of weekday row dow
ColumnX(weekIndex) == paddingLeft + padding + weekIndex * (rectSize + gap)
RowY(dow) == paddingTop + padding + dow * (rectSize + gap)

\* `${y}-${m}` of iso.split('-')
MonthKey(iso) == SubSeq(iso, 1, 4) \o Hyphen \o SubSeq(iso, 6, 7)

\* the days i of the loop at which monthKey is not yet in monthPositions
FirstDaysOfMonths(calendarStart, totalDays) ==
    { i \in 0 .. totalDays - 1 :
        \A j \in 0 .. i - 1 :
            MonthKey(toISODate(calendarStart + j)) # MonthKey(toISODate(calendarStart + i)) }

RECURSIVE Ascending(_)
\* the loop visits the days in ascending order
Ascending(S) ==
    IF S = {} THEN <<>>
    ELSE LET lo == CHOOSE x \in S : \A y \in S : x <= y
         IN  <<lo>> \o Ascending(S \ {lo})

\* monthKey -> the week index of the column after the month's first day
monthPositionsNextWeek(calendarStart, totalDays) ==
    LET firsts == Ascending(FirstDaysOfMonths(calendarStart, totalDays))
    IN  [ k \in DOMAIN firsts |->
            << MonthKey(toISODate(calendarStart + firsts[k])), (firsts[k] + 6) \div 7 >> ]

\* monthKey -> weekIndex (first occurrence), in insertion order
monthPositionsOf(calendarStart, totalDays) ==
    LET firsts == Ascending(FirstDaysOfMonths(calendarStart, totalDays))
    IN  [ k \in DOMAIN firsts |->
            << MonthKey(toISODate(calendarStart + firsts[k])), firsts[k] \div 7 >> ]

\* one <rect> per day of the calendar range, in order
rectsOf(calendarStart, totalDays, counts, breaks) ==
    [ k \in 1 .. totalDays |->
        LET i == k - 1
            d == calendarStart + i
            iso == toISODate(d)
            count == GetOrZero(counts, iso)
        IN  [ x |-> ColumnX(i \div 7),
              y |-> RowY(getUTCDay(d)),
              fill |-> colorForCount(count, breaks),
              count |-> count,
              iso |-> iso ] ]

\* one <text> per month key, the keys sorted
monthLabelsOf(monthPositions) ==
    LET monthKeys == Sort(Keys(monthPositions))
    IN  [ k \in DOMAIN monthKeys |->
            [ x |-> ColumnX(Get(monthPositions, monthKeys[k])),
              y |-> Max2(12, paddingTop - 6),
              text |-> monthNames[Number(SubSeq(monthKeys[k], 6, 7))] ] ]

weekdayLabelsSvg ==
    [ k \in DOMAIN weekdayLabels |->
        [ x |-> paddingLeft - 6,
          y |-> RowY(weekdayLabels[k].dow) + rectSize \div 2 + 4,
          text |-> weekdayLabels[k].label ] ]

\* the early return dropped after the labels were emitted
renderEmptyWithLabels(p, usersLabel) ==
    [ MinimalSvg EXCEPT !.weekdayLabels = weekdayLabelsSvg ]

renderCalendarSVG(p, usersLabel) ==
    IF p.start = Null \/ p.end = Null THEN MinimalSvg
    ELSE LET calendarStart == calendarStartOf(p.start)
             totalDays == totalDaysOf(p.start, p.end)
             weeks == weeksOf(p.start, p.end)
             breaks == breaksOf(maxCountOf(p.counts))
         IN  [ width  |-> paddingLeft + padding + weeks * (rectSize + gap),
               height |-> paddingTop + padding + 7 * (rectSize + gap),
               label  |-> usersLabel,
               monthLabels |-> monthLabelsOf(monthPositionsOf(calendarStart, totalDays)),
               weekdayLabels |-> weekdayLabelsSvg,
               rects |-> rectsOf(calendarStart, totalDays, p.counts, breaks) ]


-----------------------------------------------------------------------------
(* The pipeline: aggregateUsers once the fetches resolved, then the render   *)

\* 2023-12-30, a Saturday: the window crosses a year end and two month starts,
\* 2024-01-01 (a Monday) and 2024-02-01 (a Thursday)
WindowBase == DateUTC(2023, 12, 30)
WindowDays == WindowBase .. WindowBase + MaxSpan

\* two adjacent days on either side of the year end
MergeDay1 == toISODate(WindowBase + 1)
MergeDay2 == toISODate(WindowBase + 2)

\* a series over the two merge days, in the order fetchUserCalendar inserts:
\* the first day absent or with any count, the second absent or with MaxCount
SmallSeries ==
    LET Opt1 == {<<>>} \cup {<<c>> : c \in 0 .. MaxCount}
        Opt2 == {<<>>, <<MaxCount>>}
    IN  { (IF a = <<>> THEN <<>> ELSE << <<MergeDay1, a[1]>> >>) \o
          (IF b = <<>> THEN <<>> ELSE << <<MergeDay2, b[1]>> >>) : a \in Opt1, b \in Opt2 }

MergeInputs == UNION { [1 .. n -> SmallSeries] : n \in 0 .. MaxMaps }

\* one series with a first and a last day anywhere in the window
RangeInputs ==
    { << (IF se[1] = se[2] THEN << <<toISODate(se[1]), cs>> >>
          ELSE << <<toISODate(se[1]), cs>>, <<toISODate(se[2]), 1>> >>) >> :
        se \in { x \in WindowDays \X WindowDays : x[1] <= x[2] },
        cs \in 0 .. MaxCount }

ColorInputs == { << << <<MergeDay2, c>> >> >> : c \in 0 .. MaxColorCount }

ServerIdle ==
    /\ now = 0
    /\ cache = <<>>
    /\ reqs = <<>>
    /\ ticks = 0

InitPipeline ==
    /\ maps \in MergeInputs \cup RangeInputs \cup ColorInputs
    /\ merged = <<>>
    /\ payload = mergedMapToPayload(<<>>)
    /\ svg = MinimalSvg
    /\ pc = "merge"
    /\ ServerIdle

\* const merged = mergeMaps(maps)
Merge ==
    /\ pc = "merge"
    /\ merged' = mergeMaps(maps)
    /\ pc' = "summarize"
    /\ UNCHANGED <<maps, payload, svg, svars>>

\* const payload = mergedMapToPayload(merged)
Summarize ==
    /\ pc = "summarize"
    /\ payload' = mergedMapToPayload(merged)
    /\ pc' = "render"
    /\ UNCHANGED <<maps, merged, svg, svars>>

\* const svg = renderCalendarSVG(payload, users.join(' and '))
Render ==
    /\ pc = "render"
    /\ svg' = renderCalendarSVG(payload, <<"users">>)
    /\ pc' = "done"
    /\ UNCHANGED <<maps, merged, payload, svars>>

NextPipeline == Merge \/ Summarize \/ Render

SpecPipeline == InitPipeline /\ [][NextPipeline]_vars

-----------------------------------------------------------------------------
(* The server: cache, fetchUserCalendar, aggregateUsers, the two handlers    *)
(*                                                                         *)
(* A step is one turn of the event loop: the arrival of a request or the    *)
(* answer to one fetch, together with every continuation it makes runnable  *)
(* (promise reactions run before the next event is taken).                  *)

CACHE_TTL_MS == 60 * 1000
\* users.length > 10
MaxUsers == 10

\* the clock advances by the staleness window or by a millisecond less:
\* ages of TTL - 1, TTL, 2 * TTL - 2 and 2 * TTL are all reached
TickSizes == {CACHE_TTL_MS - 1, CACHE_TTL_MS}
\* the clock of the join scenarios, where only staleness matters
JoinTickSizes == {CACHE_TTL_MS}
Reqs == 1 .. MaxReqs

\* what GitHub answers for a login: "a" has no contribution days, any other
\* login has one; which fetch a Map came from is told by the time it started
UpstreamSeries(login) == IF login = "a" THEN <<>> ELSE << <<MergeDay2, 1>> >>

\* req.query.users split at ',' and trimmed: the tokens, empty ones included
SingleQueries == { <<"a">> }
RawQueries ==
    { <<"">>, <<"a", "", "b">>, [i \in 1 .. MaxUsers + 1 |-> "a"] }

NonEmpty(t) == t # ""

parseUsersParam(raw) ==
    LET users == SelectSeq(raw, NonEmpty)
    IN  IF Len(users) = 0
        THEN [ok |-> FALSE, users |-> <<>>, error |-> "Missing users parameter"]
        ELSE IF Len(users) > MaxUsers
        THEN [ok |-> FALSE, users |-> <<>>, error |-> "Too many users requested"]
        ELSE [ok |-> TRUE, users |-> users, error |-> ""]

\* `user:${login}`, `combined:${users.join(',')}`, `combinedsvg:${users.join(',')}`
UserKey(login) == [kind |-> "user", users |-> <<login>>]
CombinedKey(kind, users) ==
    [kind |-> IF kind = "json" THEN "combined" ELSE "combinedsvg", users |-> users]

\* users.join(' and ')
JoinAnd(users) ==
    [ i \in 1 .. 2 * Len(users) - 1 |-> IF i % 2 = 1 THEN users[(i + 1) \div 2] ELSE " and " ]

\* c.set(key, entry)
CacheSet(c, key, entry) ==
    [ k \in DOMAIN c \cup {key} |-> IF k = key THEN entry ELSE c[k] ]

\* a cached entry served whatever its age
IsFreshAlways(t, ts) == TRUE

\* an entry of age CACHE_TTL_MS served as well
IsFreshInclusive(t, ts) == (t - ts) <= CACHE_TTL_MS

\* (now - cached.ts) < CACHE_TTL_MS
IsFresh(t, ts) == (t - ts) < CACHE_TTL_MS

\* cached && (now - cached.ts) < CACHE_TTL_MS
Hit(key) == key \in DOMAIN cache /\ IsFresh(now, cache[key].ts)

\* cache.set(cacheKey, { ts: now, ... }): now was read before the await
StampOf(started, written) == started

(* A cache entry is { ts, data }; src is a history field, the start times of *)
(* the fetches its data came from (one per user, in the order of users).     *)

NoResp == [status |-> 0, body |-> <<>>, hit |-> FALSE, servedTs |-> 0, src |-> <<>>]
EmptyPayload == [start |-> Null, end |-> Null, total |-> 0, counts |-> <<>>]

(* A request: its handler's locals (kind, users, now, payload), the fetches  *)
(* of its Promise.all, and the response once sent. stale and agg are history *)
(* fields: the cache held an entry that was too old; aggregateUsers returned.*)
IdleReq ==
    [ state |-> "idle", kind |-> "json", users |-> <<>>, now |-> 0, stale |-> FALSE,
      fetches |-> <<>>, agg |-> FALSE, payload |-> EmptyPayload, resp |-> NoResp ]

\* fetchUserCalendar(login) up to its first await: a fresh cached Map resolves
\* at once, otherwise the request to GitHub is sent
StartFetch(login) ==
    IF Hit(UserKey(login))
    THEN [ st |-> "hit", now |-> now, data |-> cache[UserKey(login)].data,
           src |-> cache[UserKey(login)].src[1], cachedTs |-> cache[UserKey(login)].ts ]
    ELSE [ st |-> "pending", now |-> now, data |-> <<>>, src |-> now, cachedTs |-> 0 ]

\* a fetch that settled for a request that has answered: nothing reads it
SettledFetch == [st |-> "settled", now |-> 0, data |-> <<>>, src |-> 0, cachedTs |-> 0]

\* once the response is sent the handler's locals are gone: of a request that
\* answered only the fetches still under way remain (they will write the cache)
Settle(req) ==
    IF req.state \notin {"done", "gone"} THEN req
    ELSE IF \E i \in DOMAIN req.fetches : req.fetches[i].st = "pending"
    THEN [IdleReq EXCEPT !.state = "gone", !.users = req.users,
                         !.fetches = [i \in DOMAIN req.fetches |->
                                        IF req.fetches[i].st = "pending"
                                        THEN req.fetches[i] ELSE SettledFetch]]
    ELSE [IdleReq EXCEPT !.state = "gone"]

\* the requests as the next step finds them
Settled == [q \in Reqs |-> Settle(reqs[q])]

Rejected(fetches) == \E i \in DOMAIN fetches : fetches[i].st = "failed"

\* the join fulfilled as soon as nothing is pending, failures dropped
JoinedSettled(fetches) ==
    /\ \A i \in DOMAIN fetches : fetches[i].st # "pending"
    /\ \E i \in DOMAIN fetches : fetches[i].st \in {"hit", "ok"}

\* Promise.all(users.map(fetchUserCalendar)) is fulfilled
Joined(fetches) == \A i \in DOMAIN fetches : fetches[i].st \in {"hit", "ok"}

IsFulfilled(f) == f.st \in {"hit", "ok"}

\* aggregateUsers after the await: the Maps that Promise.all delivered, merged
aggregateUsers(fetches) ==
    LET got == SelectSeq(fetches, IsFulfilled)
    IN  mergedMapToPayload(mergeMaps([i \in DOMAIN got |-> got[i].data]))

\* the handler after `await aggregateUsers(users)`: the response of the try
\* block when the join is fulfilled, of the catch block when it is rejected
Answer(req) ==
    IF req.state # "waiting" THEN req
    ELSE IF Joined(req.fetches)
    THEN LET p == aggregateUsers(req.fetches)
             got == SelectSeq(req.fetches, IsFulfilled)
         IN  [req EXCEPT !.state = "done", !.agg = TRUE, !.payload = p,
                         !.resp = [ status |-> 200,
                                    body |-> IF req.kind = "json" THEN p
                                             ELSE renderCalendarSVG(p, JoinAnd(req.users)),
                                    hit |-> FALSE, servedTs |-> 0,
                                    src |-> [i \in DOMAIN got |-> got[i].src] ]]
    ELSE IF Rejected(req.fetches)
    THEN [req EXCEPT !.state = "done",
                     !.resp = [NoResp EXCEPT !.status = 400, !.body = "GitHub API error"]]
    ELSE req

\* cache.set(cacheKey, { ts: now, data: payload | svg }) of the try block,
\* answered being Answer(req)
CacheAfter(c, req, answered) ==
    IF req.state = "waiting" /\ answered.state = "done" /\ answered.resp.status = 200
    THEN CacheSet(c, CombinedKey(req.kind, req.users),
                  [ts |-> req.now, data |-> answered.resp.body, src |-> answered.resp.src])
    ELSE c

InitServer ==
    /\ now = 0
    /\ cache = <<>>
    /\ reqs = [r \in Reqs |-> IdleReq]
    /\ ticks = 0
    /\ maps = <<>>
    /\ merged = <<>>
    /\ payload = EmptyPayload
    /\ svg = MinimalSvg
    /\ pc = "off"

\* time passes
Tick(limit, sizes) ==
    /\ ticks < limit
    /\ \E d \in sizes : now' = now + d
    /\ ticks' = ticks + 1
    /\ reqs' = Settled
    /\ UNCHANGED <<cache, pvars>>

\* GET /api/combined (kind "json") or /api/combined.svg (kind "svg"): the
\* handler from the arrival to its response or to its await
Arrive(r, kind, raw) ==
    /\ reqs[r].state = "idle"
    /\ \A q \in 1 .. r - 1 : reqs[q].state # "idle"
    /\ LET parsed == parseUsersParam(raw)
           key == CombinedKey(kind, parsed.users)
           base == [IdleReq EXCEPT !.kind = kind, !.users = parsed.users, !.now = now]
           started == [base EXCEPT !.state = "waiting",
                                   !.stale = (key \in DOMAIN cache),
                                   !.fetches = [i \in DOMAIN parsed.users |->
                                                  StartFetch(parsed.users[i])]]
       IN  IF ~parsed.ok
           THEN /\ reqs' = [Settled EXCEPT ![r] =
                              [base EXCEPT !.state = "done",
                                           !.resp = [NoResp EXCEPT !.status = 400,
                                                                   !.body = parsed.error]]]
                /\ cache' = cache
           ELSE IF Hit(key)
           THEN /\ reqs' = [Settled EXCEPT ![r] =
                              [base EXCEPT !.state = "done",
                                           !.resp = [status |-> 200, body |-> cache[key].data,
                                                     hit |-> TRUE, servedTs |-> cache[key].ts,
                                                     src |-> cache[key].src]]]
                /\ cache' = cache
           ELSE LET answered == Answer(started)
                IN  /\ reqs' = [Settled EXCEPT ![r] = answered]
                    /\ cache' = CacheAfter(cache, started, answered)
    /\ UNCHANGED <<now, ticks, pvars>>

\* GitHub answers a fetch: fetchUserCalendar builds the Map, caches it under
\* the now it read before the await and returns it; the last Map of a
\* request fulfils its Promise.all
FetchOk(r, i) ==
    /\ reqs[r].fetches[i].st = "pending"
    /\ LET f == reqs[r].fetches[i]
           login == reqs[r].users[i]
           c1 == CacheSet(cache, UserKey(login),
                          [ts |-> StampOf(f.now, now), data |-> UpstreamSeries(login),
                           src |-> <<f.now>>])
           req == [reqs[r] EXCEPT !.fetches[i] =
                     IF reqs[r].state = "waiting"
                     THEN [f EXCEPT !.st = "ok", !.data = UpstreamSeries(login)]
                     ELSE SettledFetch]
           answered == Answer(req)
       IN  /\ cache' = CacheAfter(c1, req, answered)
           /\ reqs' = [Settled EXCEPT ![r] = answered]
    /\ UNCHANGED <<now, ticks, pvars>>

\* a fetch throws (!res.ok, json.errors, no such user): Promise.all rejects
\* and the catch block of a handler still waiting answers 400
FetchFail(r, i) ==
    /\ reqs[r].fetches[i].st = "pending"
    /\ LET req == [reqs[r] EXCEPT !.fetches[i] =
                     IF reqs[r].state = "waiting"
                     THEN [reqs[r].fetches[i] EXCEPT !.st = "failed"]
                     ELSE SettledFetch]
           answered == Answer(req)
       IN  /\ cache' = CacheAfter(cache, req, answered)
           /\ reqs' = [Settled EXCEPT ![r] = answered]
    /\ UNCHANGED <<now, ticks, pvars>>

\* requests for one user
Next ==
    \/ Tick(MaxTicks, TickSizes)
    \/ \E r \in Reqs, kind \in {"json", "svg"}, raw \in SingleQueries : Arrive(r, kind, raw)
    \/ \E r \in Reqs : \E i \in DOMAIN reqs[r].fetches : FetchOk(r, i)
    \/ \E r \in Reqs : \E i \in DOMAIN reqs[r].fetches : FetchFail(r, i)

Spec == InitServer /\ [][Next]_vars

\* requests for one and for two users, valid or not
NextJoin ==
    \/ Tick(MaxJoinTicks, JoinTickSizes)
    \/ \E r \in 1 .. MaxJoinReqs, kind \in {"json", "svg"}, raw \in RawQueries :
          Arrive(r, kind, raw)
    \/ \E r \in Reqs : \E i \in DOMAIN reqs[r].fetches : FetchOk(r, i)
    \/ \E r \in Reqs : \E i \in DOMAIN reqs[r].fetches : FetchFail(r, i)

SpecJoin == InitServer /\ [][NextJoin]_vars

-----------------------------------------------------------------------------
(* Properties of the pipeline *)

\* a Map or object as the set of its <<key, value>> pairs, its order forgotten
AsMapping(m) == { <<m[i][1], m[i][2]>> : i \in DOMAIN m }
UniqueKeys(m) == \A i, j \in DOMAIN m : m[i][1] = m[j][1] => i = j

\* the dates that are a key of at least one input
InputDates == UNION { { maps[j][i][1] : i \in DOMAIN maps[j] } : j \in DOMAIN maps }

RECURSIVE SumAt(_, _)
\* the sum of date d's counts over the first n inputs, absence counted as zero
SumAt(d, n) ==
    IF n = 0 THEN 0
    ELSE SumAt(d, n - 1) +
         (IF \E i \in DOMAIN maps[n] : maps[n][i][1] = d
          THEN maps[n][CHOOSE i \in DOMAIN maps[n] : maps[n][i][1] = d][2]
          ELSE 0)

\* C1: the Map mergeMaps returns has exactly the dates of the inputs as keys
\* (each once), the value at a date is the sum of that date's counts over the
\* inputs holding it, and no inputs give an empty Map.
C1_MergeIsPointwiseSum ==
    pc # "merge" =>
        /\ UniqueKeys(merged)
        /\ { merged[i][1] : i \in DOMAIN merged } = InputDates
        /\ \A i \in DOMAIN merged : merged[i][2] = SumAt(merged[i][1], Len(maps))
        /\ (maps = <<>> => merged = <<>>)

\* two inputs share a date with positive counts and another date is in one only
C1_Witness ==
    /\ pc = "summarize"
    /\ Len(maps) >= 2
    /\ \E d \in InputDates :
        /\ Has(maps[1], d) /\ Has(maps[2], d)
        /\ Get(maps[1], d) > 0 /\ Get(maps[2], d) > 0
        /\ Get(merged, d) = SumAt(d, Len(maps))
    /\ \E d \in InputDates : Has(maps[1], d) # Has(maps[2], d)

\* the inputs in the order perm gives them
Permuted(perm) == [ i \in DOMAIN maps |-> maps[perm[i]] ]

\* C2: merging the inputs in any other order gives the same date-to-count
\* mapping as the merge that was run.
C2_MergeOrderIndependent ==
    pc = "summarize" =>
        \A perm \in Permutations(DOMAIN maps) :
            AsMapping(mergeMaps(Permuted(perm))) = AsMapping(merged)

\* the reversed inputs fill the Map in another insertion order, the mapping is the same
C2_Witness ==
    /\ pc = "summarize"
    /\ Len(maps) >= 2
    /\ \E d \in InputDates : Get(merged, d) >= 2
    /\ LET rev == mergeMaps([ i \in DOMAIN maps |-> maps[Len(maps) + 1 - i] ])
       IN  rev # merged /\ AsMapping(rev) = AsMapping(merged)

RECURSIVE SumFirst(_, _)
\* the sum of the first n values of m
SumFirst(m, n) == IF n = 0 THEN 0 ELSE SumFirst(m, n - 1) + m[n][2]

\* C3: the payload's total is the sum of the values of counts, counts holds
\* the entries of the merged series, start and end are keys with every key
\* between them, and an empty series gives start = end = null, total = 0,
\* counts = {}.
C3_PayloadSummarizes ==
    pc \in {"render", "done"} =>
        /\ payload.total = SumFirst(payload.counts, Len(payload.counts))
        /\ UniqueKeys(payload.counts)
        /\ AsMapping(payload.counts) = AsMapping(merged)
        /\ merged # <<>> =>
            /\ Has(merged, payload.start)
            /\ Has(merged, payload.end)
            /\ \A i \in DOMAIN merged :
                /\ parseDate(payload.start) <= parseDate(merged[i][1])
                /\ parseDate(merged[i][1]) <= parseDate(payload.end)
        /\ merged = <<>> =>
            payload = [start |-> Null, end |-> Null, total |-> 0, counts |-> <<>>]

\* the merged Map holds its dates out of order, across the year end
C3_Witness ==
    /\ pc = "render"
    /\ Len(merged) >= 2
    /\ merged[1][1] = payload.end
    /\ merged[Len(merged)][1] = payload.start
    /\ payload.start # payload.end
    /\ payload.total >= 2

\* what the drawing says: the week column of an x, the weekday row of a y
ColumnOfX(x) == (x - ColumnX(0)) \div (rectSize + gap)
RowOfY(y) == (y - RowY(0)) \div (rectSize + gap)
WeeksDrawn == ColumnOfX(svg.width)

Rendered == pc = "done" /\ payload.start # Null

\* C4: calendarStart is a Sunday not after start; every date of [start, end]
\* has one rect, at column floor(dayOffset / 7) below weeks = ceil(totalDays / 7)
\* and at row dayOffset mod 7, which is the date's own UTC weekday, and no
\* other rect of the grid is at that place.
C4_GridInvariant ==
    Rendered =>
        LET cs == calendarStartOf(payload.start)
            s == parseDate(payload.start)
            e == parseDate(payload.end)
            totalDays == e - cs + 1
        IN  /\ cs <= s
            /\ getUTCDay(cs) = 0
            /\ Len(svg.rects) = totalDays
            /\ svg.rects[1].iso = toISODate(cs)
            /\ 7 * (WeeksDrawn - 1) < totalDays
            /\ totalDays <= 7 * WeeksDrawn
            /\ svg.width = ColumnX(WeeksDrawn)
            /\ \A d \in s .. e :
                \E k \in DOMAIN svg.rects :
                    LET r == svg.rects[k] IN
                    /\ r.iso = toISODate(d)
                    /\ r.x = ColumnX((d - cs) \div 7)
                    /\ r.y = RowY((d - cs) % 7)
                    /\ (d - cs) % 7 = getUTCDay(d)
                    /\ RowOfY(r.y) \in 0 .. 6
                    /\ ColumnOfX(r.x) \in 0 .. WeeksDrawn - 1
                    /\ \A j \in DOMAIN svg.rects :
                        (svg.rects[j].x = r.x /\ svg.rects[j].y = r.y) => j = k

\* a range that starts mid-week, after a roll back over the year end, and
\* ends in a partial third week
C4_Witness ==
    /\ Rendered
    /\ getUTCDay(parseDate(payload.start)) = 3
    /\ SubSeq(toISODate(calendarStartOf(payload.start)), 1, 4) # SubSeq(payload.start, 1, 4)
    /\ WeeksDrawn = 3
    /\ Len(svg.rects) = 17

\* the largest q with 4 * q <= n * mc: floor(mc * n / 4)
FloorQuarter(n, mc) == CHOOSE q \in 0 .. n * mc : 4 * q <= n * mc /\ n * mc < 4 * (q + 1)
Threshold(i, mc) == IF i = 0 THEN 0 ELSE Max2(1, FloorQuarter(i, mc))
\* the smallest i with count <= t_i, else 4
BinOf(count, mc) ==
    IF \E i \in 0 .. 3 : count <= Threshold(i, mc)
    THEN CHOOSE i \in 0 .. 3 :
            /\ count <= Threshold(i, mc)
            /\ \A j \in 0 .. i - 1 : count > Threshold(j, mc)
    ELSE 4
PaletteIndex(color) == (CHOOSE i \in DOMAIN palette : palette[i] = color) - 1
DrawnBin(count) ==
    PaletteIndex(colorForCount(count, breaksOf(maxCountOf(payload.counts))))

\* C5: for the maxCount of the rendered series, colorForCount gives every
\* count the palette entry of the smallest i with count <= t_i (else 4), the
\* rects are filled with it, and a larger count never gets a smaller bin.
C5_ColorMonotone ==
    Rendered =>
        LET mc == maxCountOf(payload.counts) IN
        /\ mc >= 1
        /\ \A c \in 0 .. mc + 1 : DrawnBin(c) = BinOf(c, mc)
        /\ \A k \in DOMAIN svg.rects :
            svg.rects[k].fill = palette[BinOf(svg.rects[k].count, mc) + 1]
        /\ \A c1 \in 0 .. mc + 1 : \A c2 \in c1 .. mc + 1 : DrawnBin(c1) <= DrawnBin(c2)

\* four distinct thresholds, and all five bins are used
C5_Witness ==
    /\ Rendered
    /\ maxCountOf(payload.counts) = 12
    /\ { DrawnBin(c) : c \in 0 .. 12 } = 0 .. 4
    /\ \E k \in DOMAIN svg.rects : svg.rects[k].fill = palette[5]
    /\ \E k \in DOMAIN svg.rects : svg.rects[k].fill = palette[1]

\* <<year, month>> of a day number, and the month after it
YearMonth(t) == <<Civil(t)[1], Civil(t)[2]>>
NextMonth(ym) == IF ym[2] = 12 THEN <<ym[1] + 1, 1>> ELSE <<ym[1], ym[2] + 1>>

\* the series spans exactly two calendar months and the second starts mid-week
TwoMonthSeries ==
    /\ Rendered
    /\ YearMonth(parseDate(payload.end)) = NextMonth(YearMonth(parseDate(payload.start)))
    /\ getUTCDay(DateUTC(Civil(parseDate(payload.end))[1], Civil(parseDate(payload.end))[2], 1)) # 0

\* the first day of the second month, and its offset from calendarStart
SecondMonthStart ==
    DateUTC(Civil(parseDate(payload.end))[1], Civil(parseDate(payload.end))[2], 1)
SecondMonthColumn == (SecondMonthStart - calendarStartOf(payload.start)) \div 7

\* the label of the second month is the last one: it stands at the column of
\* the month's first day, which also holds days of the first month
SecondMonthLabelPlaced ==
    LET last == svg.monthLabels[Len(svg.monthLabels)] IN
    /\ last.text = monthNames[Civil(SecondMonthStart)[2]]
    /\ ColumnOfX(last.x) = SecondMonthColumn
    /\ \E k \in DOMAIN svg.rects :
        /\ ColumnOfX(svg.rects[k].x) = SecondMonthColumn
        /\ YearMonth(parseDate(svg.rects[k].iso)) = YearMonth(parseDate(payload.start))
    /\ \E k \in DOMAIN svg.rects :
        /\ ColumnOfX(svg.rects[k].x) = SecondMonthColumn
        /\ svg.rects[k].iso = toISODate(SecondMonthStart)

\* C6 as stated: a two-month series whose second month starts mid-week gets
\* exactly two month labels, the second at the column of that month's first day.
C6_ExactlyTwoLabels ==
    TwoMonthSeries =>
        /\ Len(svg.monthLabels) = 2
        /\ SecondMonthLabelPlaced

\* C6 amended: such a series gets one label per month of [calendarStart, end]:
\* two when calendarStart lies in the month of start, three (one more, for the
\* month before, at column 0) when the roll back to Sunday leaves that month;
\* the label of the second month is the last, at the column of its first day.
C6_LabelPerGridMonth ==
    TwoMonthSeries =>
        LET cs == calendarStartOf(payload.start) IN
        /\ YearMonth(cs) = YearMonth(parseDate(payload.start)) => Len(svg.monthLabels) = 2
        /\ YearMonth(cs) # YearMonth(parseDate(payload.start)) =>
            /\ Len(svg.monthLabels) = 3
            /\ svg.monthLabels[1].text = monthNames[Civil(cs)[2]]
            /\ ColumnOfX(svg.monthLabels[1].x) = 0
        /\ svg.monthLabels[Len(svg.monthLabels) - 1].text =
                monthNames[Civil(parseDate(payload.start))[2]]
        /\ SecondMonthLabelPlaced

\* a series from January into February (which starts on a Thursday) whose
\* calendarStart is in January too: two labels, Feb in a column shared with Jan
C6_Witness ==
    /\ TwoMonthSeries
    /\ YearMonth(calendarStartOf(payload.start)) = YearMonth(parseDate(payload.start))
    /\ Len(svg.monthLabels) = 2
    /\ svg.monthLabels[2].text = "Feb"
    /\ ColumnOfX(svg.monthLabels[2].x) >= 1

-----------------------------------------------------------------------------
(* Properties of the server *)

\* the combined cache key of a request's handler
KeyOf(req) == CombinedKey(req.kind, req.users)
IsCombined(k) == k.kind \in {"combined", "combinedsvg"}
\* request r's handler sends its response in this step
Answers(r) == reqs[r].state \in {"idle", "waiting"} /\ reqs'[r].state = "done"

\* what holds of every answered request over N users
C7_NoPartialAnswer ==
    /\ \A r \in Reqs :
        reqs[r].state = "done" =>
            /\ Rejected(reqs[r].fetches) =>
                /\ reqs[r].resp.status = 400
                /\ ~reqs[r].agg
            /\ reqs[r].agg =>
                /\ Joined(reqs[r].fetches)
                /\ Len(reqs[r].fetches) = Len(reqs[r].users)
            /\ (reqs[r].resp.status = 200 /\ ~reqs[r].resp.hit) =>
                /\ reqs[r].agg
                /\ Len(reqs[r].resp.src) = Len(reqs[r].users)
    /\ \A k \in DOMAIN cache : IsCombined(k) => Len(cache[k].src) = Len(k.users)

\* a combined entry is written only by a request that answers 200 from a
\* Promise.all in which every fetch was fulfilled
C7_WriteOnlyOnSuccess ==
    \A k \in DOMAIN cache' :
        (IsCombined(k) /\ (k \notin DOMAIN cache \/ cache'[k] # cache[k])) =>
            \E r \in Reqs :
                /\ Answers(r)
                /\ KeyOf(reqs'[r]) = k
                /\ reqs'[r].resp.status = 200
                /\ Joined(reqs'[r].fetches)
                /\ Len(reqs'[r].fetches) = Len(k.users)

\* C7: aggregation is all-or-nothing. A request is merged only when each of
\* its N fetches is fulfilled; when a fetch fails the request answers 400,
\* nothing merged from the fulfilled subset is returned, and no combined or
\* combinedsvg entry is written for it, whatever the order of completions.
C7_AllOrNothing == []C7_NoPartialAnswer /\ [][C7_WriteOnlyOnSuccess]_vars

\* a request for two users answers 400 after one fetch was fulfilled (and
\* cached) and the other failed; its combined key is not in the cache
C7_Witness ==
    \E r \in Reqs :
        /\ reqs[r].state = "done"
        /\ Len(reqs[r].users) = 2
        /\ reqs[r].resp.status = 400
        /\ \E i, j \in DOMAIN reqs[r].fetches :
            /\ reqs[r].fetches[i].st = "ok"
            /\ reqs[r].fetches[j].st = "failed"
            /\ UserKey(reqs[r].users[i]) \in DOMAIN cache
        /\ KeyOf(reqs[r]) \notin DOMAIN cache

\* every cached value that is served, to a caller or to aggregateUsers, is
\* younger than the TTL at the now of the read
C8_ServedFresh ==
    \A r \in Reqs :
        /\ (reqs[r].state = "done" /\ reqs[r].resp.hit) =>
              reqs[r].now - reqs[r].resp.servedTs < CACHE_TTL_MS
        /\ \A i \in DOMAIN reqs[r].fetches :
              reqs[r].fetches[i].st = "hit" =>
                  reqs[r].fetches[i].now - reqs[r].fetches[i].cachedTs < CACHE_TTL_MS

\* a handler that recomputed and answers 200 has put the value it sends under
\* its key, stamped with the now of its arrival; a fulfilled fetch has put
\* its Map under the user's key, stamped with the now of its start
C8_RecomputedIsStored ==
    \A r \in Reqs :
        /\ (Answers(r) /\ reqs'[r].resp.status = 200 /\ ~reqs'[r].resp.hit) =>
              /\ KeyOf(reqs'[r]) \in DOMAIN cache'
              /\ cache'[KeyOf(reqs'[r])].ts = reqs'[r].now
              /\ cache'[KeyOf(reqs'[r])].data = reqs'[r].resp.body
        /\ \A i \in DOMAIN reqs[r].fetches :
              (/\ reqs[r].state = "waiting"
               /\ reqs[r].fetches[i].st = "pending"
               /\ reqs'[r].fetches[i].st = "ok") =>
                  /\ UserKey(reqs[r].users[i]) \in DOMAIN cache'
                  /\ cache'[UserKey(reqs[r].users[i])].ts = reqs[r].fetches[i].now
                  /\ cache'[UserKey(reqs[r].users[i])].data = reqs'[r].fetches[i].data

\* a handler that read a stale entry and answers 400 leaves that entry as it was
C8_FailureKeepsEntry ==
    \A r \in Reqs :
        (Answers(r) /\ reqs'[r].stale /\ reqs'[r].resp.status = 400) =>
            /\ KeyOf(reqs'[r]) \in DOMAIN cache
            /\ cache'[KeyOf(reqs'[r])] = cache[KeyOf(reqs'[r])]

\* no step removes a key
C8_NeverRemoved == \A k \in DOMAIN cache : k \in DOMAIN cache'

\* C8 as the specification states it: every request that read a stale entry
\* ends with that entry overwritten by the value it recomputed.
C8_StaleReadOverwrites ==
    [][\A r \in Reqs :
        (Answers(r) /\ reqs'[r].stale) =>
            /\ cache'[KeyOf(reqs'[r])].ts = reqs'[r].now
            /\ reqs'[r].resp.status = 200]_vars

\* C8: an entry whose age is not below the TTL (60 s) is never returned, the
\* read is a miss; when the recomputation succeeds the entry is overwritten
\* with its value, when it fails the stale entry stays and the caller gets
\* the error; no step removes an entry.
C8_StaleNeverServed ==
    /\ []C8_ServedFresh
    /\ [][C8_RecomputedIsStored /\ C8_FailureKeepsEntry /\ C8_NeverRemoved]_vars

\* a request found its entry too old, fetched again and stored what it sends
C8_Witness ==
    \E r \in Reqs :
        /\ reqs[r].state = "done"
        /\ reqs[r].stale
        /\ reqs[r].now >= CACHE_TTL_MS
        /\ reqs[r].resp.status = 200
        /\ ~reqs[r].resp.hit
        /\ reqs[r].fetches[1].st = "ok"
        /\ cache[KeyOf(reqs[r])].ts = reqs[r].now

\* C9: an empty merged series is a success. When aggregateUsers returns a
\* summary whose start is null, the SVG handler answers 200 with the minimal
\* SVG, which has no cells and no month or weekday labels, and stores it.
C9_EmptySeriesSucceeds ==
    \A r \in Reqs :
        (/\ reqs[r].state = "done"
         /\ reqs[r].kind = "svg"
         /\ reqs[r].agg
         /\ reqs[r].payload.start = Null) =>
            /\ reqs[r].resp.status = 200
            /\ reqs[r].resp.body = MinimalSvg
            /\ reqs[r].resp.body.rects = <<>>
            /\ reqs[r].resp.body.monthLabels = <<>>
            /\ reqs[r].resp.body.weekdayLabels = <<>>
            /\ cache[KeyOf(reqs[r])].data = MinimalSvg

\* the SVG handler fetched a user without contribution days and answered
C9_Witness ==
    \E r \in Reqs :
        /\ reqs[r].state = "done"
        /\ reqs[r].kind = "svg"
        /\ reqs[r].agg
        /\ reqs[r].fetches[1].st = "ok"
        /\ reqs[r].payload = EmptyPayload
        /\ reqs[r].resp.status = 200
        /\ reqs[r].resp.body.rects = <<>>

\* C10: every series in a successful response to a request that arrived at
\* T comes from a fetch started at a ts with T - ts < 2 * CACHE_TTL_MS.
C10_EndToEndFresh ==
    \A r \in Reqs :
        (reqs[r].state = "done" /\ reqs[r].resp.status = 200) =>
            \A i \in DOMAIN reqs[r].resp.src :
                reqs[r].now - reqs[r].resp.src[i] < 2 * CACHE_TTL_MS

\* a combined entry younger than the TTL is served although the series in
\* it was fetched 2 * TTL - 2 ms before: it was built from a cached Map
C10_Witness ==
    \E r \in Reqs :
        /\ reqs[r].state = "done"
        /\ reqs[r].resp.status = 200
        /\ reqs[r].resp.hit
        /\ reqs[r].now - reqs[r].resp.servedTs < CACHE_TTL_MS
        /\ reqs[r].now - reqs[r].resp.src[1] = 2 * CACHE_TTL_MS - 2

=============================================================================
